---- MODULE Spec2Model ----
(***************************************************************************)
(* Status Page Tracker: the event bus (app/event_bus.py) and the status    *)
(* poller (app/monitor.py).                                                *)
(*                                                                         *)
(* BusSpec    the bus under concurrent publishers, subscribers, consumers  *)
(*            and callbacks, scheduled as asyncio schedules them: every    *)
(*            step runs from one suspension point to the next.             *)
(* PollerSpec one StatusPageMonitor polling one provider: its loop, its    *)
(*            ticks against every response of the bounded upstream, and    *)
(*            stop(). The events a tick publishes are kept in the order    *)
(*            the tick hands them to EventBus.publish.                     *)
(* RegistrySpec the MonitorRegistry over its lifetime (register, start_all, *)
(*            stop_all) with one polling task per registered monitor; the  *)
(*            tasks run their loops concurrently and are cancelled at any  *)
(*            of their suspension points.                                  *)
(* StopSpec   the same poller under fairness: fetches, publishes and the  *)
(*            sleep return.                                                *)
(* CancelSpec the same poller with its task cancelled, as stop_all cancels *)
(*            it, at any suspension point of a tick or in its sleep.       *)
(* RestartSpec the registry with start_all called a second time.          *)
(* NoReaderSpec the bus with subscribers whose queues nobody reads, under  *)
(*            a fair event loop and callbacks that return.                 *)
(* ReentrantSpec the bus with callbacks that call subscribe, unsubscribe   *)
(*            and publish on the bus that is delivering to them.           *)
(* StreamSpec the bus with its subscribers being consumers of stream():    *)
(*            the generator's subscription, its reads, and its finally     *)
(*            clause when the consumer is cancelled or stops iterating.    *)
(***************************************************************************)
EXTENDS Integers, Sequences, FiniteSets, TLC

\* ------------------------------------------------------------------ bounds
MaxEvents == 3      \* publish() calls in one behaviour
MaxSize == 2        \* largest queue capacity a subscriber asks for
MaxTicks == 3       \* ticks one poller starts in one behaviour

\* ---------------------------------------------------------- model values
None == <<>>
SubOrder == <<"s1", "s2">>
SubIds == {SubOrder[i] : i \in 1..Len(SubOrder)}       \* Subscription.id values
PublisherOrder == <<"p1", "p2">>
Publishers == {PublisherOrder[i] : i \in 1..Len(PublisherOrder)}  \* tasks calling publish
CallbackResults == {"ok", "raise"}
\* The deliver() tasks a gather can create.
DeliverTasks == [pub : Publishers, ev : 1..MaxEvents, sub : SubIds]

VARIABLES
    \* EventBus / Subscription
    subscribers,    \* EventBus._subscribers: the registered ids, in insertion order
    lock,           \* EventBus._lock: "free" or the task holding it
    queue,          \* Subscription.queue of every subscription
    maxsize,        \* Subscription.queue.maxsize
    hasCallback,    \* Subscription._callback is not None
    subPc,          \* where the owner of a subscription is in subscribe / unsubscribe,
                    \* or where the stream() generator that owns it is
    pubPc,          \* where a publisher is in publish()
    pubEvent,       \* the event a publisher is publishing
    pubLeft,        \* deliver() tasks of a publisher's gather not yet finished
    pubFailed,      \* a deliver() task of a publisher's gather ended with an exception
    ready,          \* deliver() tasks created by gather and not yet run (FIFO)
    inCallback,     \* deliver() tasks suspended in `await self._callback(event)`
    nextEvent,      \* the next event to publish (events are numbered in publish order)
    \* history
    snapOf,         \* event -> the subscribers its publish() snapshotted
    enq,            \* subscription -> the events put into its queue, in order
    regAt,          \* subscription -> nextEvent when subscribe() registered it
    consumed,       \* subscription -> its consumer has read from the queue
    cbRaised,       \* a callback raised during a publisher's publish() in progress
    publishRaised,  \* some publish() call raised to its publisher
    pubOf,          \* event -> the task (a provider's poller) that published it
    cbCall          \* deliver() task -> the call its callback makes on the bus: none,
                    \* waiting (for the lock), the publisher standing for its nested
                    \* publish() in progress, called

busVars == <<subscribers, lock, queue, maxsize, hasCallback, subPc, pubPc, pubEvent,
             pubLeft, pubFailed, ready, inCallback, nextEvent,
             snapOf, enq, regAt, consumed, cbRaised, publishRaised, pubOf, cbCall>>

\* The bus but for the calls of the callbacks.
busVarsButCall == <<subscribers, lock, queue, maxsize, hasCallback, subPc, pubPc, pubEvent,
                    pubLeft, pubFailed, ready, inCallback, nextEvent,
                    snapOf, enq, regAt, consumed, cbRaised, publishRaised, pubOf>>

VARIABLES
    \* StatusPageMonitor
    pc,             \* where the poller task is: created, fetching, summary, sleeping, stopped
    running,        \* _running
    etag,           \* _etag
    lastModified,   \* _last_modified
    lastHash,       \* _last_hash
    knownIncidents, \* _known_incidents: the previous snapshot, in dict order
    knownUpdateIds, \* _known_update_ids
    summary,        \* _summary
    \* history
    ticks,          \* ticks started so far
    path,           \* how the current (or last) tick left its incidents fetch and,
                    \* once it is over, its summary fetch
    tickEvents,     \* the events the current (or last) tick published, in order
    newSeen,        \* incident ids for which a new_incident event was ever published
    seenUpdates,    \* per incident id, the update ids processed snapshots showed under it
    appendOnly,     \* no processed snapshot so far dropped an update id of an incident
    stopCalled      \* stop() has been called

pollerVars == <<pc, running, etag, lastModified, lastHash, knownIncidents,
                knownUpdateIds, summary, ticks, path, tickEvents, newSeen,
                seenUpdates, appendOnly, stopCalled>>

VARIABLES
    \* MonitorRegistry
    monitors,       \* _monitors: the registered provider names, in dict order
    regPc,          \* where the registry's owner is: created, started, stopping, closing, stopped
    awaiting,       \* stop_all: the position in _tasks of the task it awaits (0: none)
    pool,           \* _client: none, open, closed
    taskOf,         \* _tasks: the tasks held, by their number, in dict order
    tasks,          \* the asyncio tasks created: [monitor, pc, cancel, at], at being
                    \* where a cancelled task was when CancelledError reached it
    \* StatusPageMonitor, per registered provider
    mRunning,       \* _running
    mSummary,       \* _summary
    \* history
    mTicks,         \* ticks a provider's poller has started
    latestOk,       \* the tick of a provider's latest successful summary fetch (0: none)
    lateEvent,      \* a poller called publish() after stop_all returned
    lateRequest     \* a poller sent a request through a pool that was not open

regVars == <<monitors, regPc, awaiting, pool, taskOf, tasks, mRunning, mSummary,
             mTicks, latestOk, lateEvent, lateRequest>>

vars == <<busVars, pollerVars, regVars>>

\* ------------------------------------------------------------- helpers
Range(s) == {s[i] : i \in 1..Len(s)}

Count(s, x) == Cardinality({i \in 1..Len(s) : s[i] = x})

LastN(s, n) == IF Len(s) <= n THEN s ELSE SubSeq(s, Len(s) - n + 1, Len(s))

RECURSIVE SortedSeq(_)
SortedSeq(S) ==
    IF S = {} THEN <<>>
    ELSE LET m == CHOOSE x \in S : \A y \in S : x <= y
         IN  <<m>> \o SortedSeq(S \ {m})

Remove(s, x) == SelectSeq(s, LAMBDA y : y # x)

\* ------------------------------------------------------- Subscription
\* asyncio.Queue.put_nowait refused by QueueFull: the event is lost.
DeliverQueueNoEvict(q, cap, event) ==
    IF Len(q) >= cap THEN q ELSE Append(q, event)

\* The except branch dropping the event that arrives instead of the oldest.
DeliverQueueDropNewest(q, cap, event) ==
    IF Len(q) >= cap THEN SubSeq(q, 1, Len(q) - 1) \o <<event>> ELSE Append(q, event)

\* The queue handing out the newest event first.
DeliverQueueLifo(q, cap, event) ==
    IF Len(q) >= cap /\ q # <<>> THEN <<event>> \o Tail(q) ELSE <<event>> \o q

\* Subscription.deliver, the queue part: put_nowait; on QueueFull get_nowait
\* (the oldest) and put_nowait again.
DeliverQueue(q, cap, event) ==
    IF Len(q) >= cap
    THEN Append(IF q = <<>> THEN q ELSE Tail(q), event)
    ELSE Append(q, event)

\* A deliver() that waits for room in the queue (await queue.put(event)).
WaitsForRoom(q, cap) == Len(q) < cap

\* Subscription.deliver: put_nowait and get_nowait never wait, the first step
\* of deliver() runs whatever the queue holds.
DeliverCanRun(q, cap) == TRUE

\* Subscription.deliver, the callback part: an Exception of the callback is
\* logged and swallowed, deliver() returns normally.
DeliverOutcome(cbResult) == "ok"

\* EventBus.publish: gather(..., return_exceptions=True) hands exceptions back
\* as results, publish() returns normally whatever the deliveries did.
PublishOutcome(failed) == "returned"

\* The lock kept by publish() over its gather.
LockHeldWhileDelivering(p) == p

\* EventBus.publish: the `async with self._lock` block ends before the
\* gather; the lock is free while the deliveries run.
LockWhileDelivering(p) == "free"

\* The subscriber list a publish() fans out to, including subscriptions whose
\* subscribe() has built the Subscription but not yet registered it.
SnapshotWithPending ==
    subscribers \o SelectSeq(SubOrder, LAMBDA s : subPc[s] = "none")

\* EventBus.publish: subs = list(self._subscribers.values()), under the lock.
SnapshotSubs == subscribers

\* uuid4().hex: an id no subscription has had. The ids are interchangeable, so
\* the unused ones are handed out in one fixed order.
FreshId == Head(SelectSeq(SubOrder, LAMBDA s : subPc[s] = "none"))

\* The publishing tasks are interchangeable too: a publish() is run by the
\* first task that is not inside one.
IdleTask == Head(SelectSeq(PublisherOrder, LAMBDA p : pubPc[p] = "idle"))

\* ------------------------------------------------------ upstream payloads
IncidentIds == <<"INC1", "INC2">>
Statuses == {"investigating", "resolved"}          \* IncidentStatus values used
UpdateLists == {<<"U1">>, <<"U1", "U2">>}          \* incident_updates, by update id

\* One entry of the "incidents" array that is a JSON object: well-formed, or
\* one the Incident model rejects (a required key is missing).
RawItems(id) ==
    [id : {id}, ok : {TRUE}, object : {TRUE}, status : Statuses, updates : UpdateLists]
        \cup {[id |-> id, ok |-> FALSE, object |-> TRUE,
                status |-> "investigating", updates |-> <<>>]}

\* An entry of the "incidents" array that is not a JSON object (null, a
\* string, a number, a list): it has no get().
NotAnObject ==
    [id |-> "?", ok |-> FALSE, object |-> FALSE, status |-> "investigating", updates |-> <<>>]

\* The "incidents" arrays: each incident id absent or present once, and the
\* arrays that end with an entry that is not an object.
Payloads ==
    {<<>>}
        \cup {<<a>> : a \in RawItems(IncidentIds[1]) \cup RawItems(IncidentIds[2])}
        \cup {<<a, b>> : a \in RawItems(IncidentIds[1]), b \in RawItems(IncidentIds[2])}
        \cup {<<NotAnObject>>}
        \cup {<<a, NotAnObject>> : a \in {r \in RawItems(IncidentIds[1]) : r.ok}}

\* Response bodies: a JSON document with an "incidents" array, or bytes that
\* are not JSON.
NotJson == [json |-> FALSE, incidents |-> <<>>]
Bodies == [json : {TRUE}, incidents : Payloads] \cup {NotJson}

\* What client.get(incidents_url) can do: raise (network error, timeout), or
\* return 304, an error status, or 200 with a body, with or without validator
\* headers. Only a 200 has its body read.
Responses ==
    {[kind |-> "network_error", status |-> 0, body |-> NotJson, validators |-> FALSE]}
        \cup {[kind |-> "response", status |-> 304, body |-> NotJson, validators |-> FALSE]}
        \cup {[kind |-> "response", status |-> 500, body |-> NotJson, validators |-> TRUE]}
        \cup [kind : {"response"}, status : {200}, body : Bodies, validators : BOOLEAN]

\* hashlib.sha256(body_bytes).hexdigest(): one digest per body.
Sha256(body) == <<"sha256", body>>

\* resp.headers.get("etag") / get("last-modified"): the validators the server
\* attaches to this representation, None when it sends none.
ETagHeader(resp) == IF resp.validators THEN <<"etag", resp.status, resp.body>> ELSE None
LastModifiedHeader(resp) ==
    IF resp.validators THEN <<"last-modified", resp.status, resp.body>> ELSE None

\* ------------------------------------------------------ StatusPageMonitor
\* _parse_incidents: the entries that parse, keyed by id in payload order; an
\* entry that raises is logged and skipped.
ParseIncidents(raw) ==
    LET good == SelectSeq(raw, LAMBDA item : item.ok)
    IN  [i \in 1..Len(good) |->
            [id |-> good[i].id, status |-> good[i].status, updates |-> good[i].updates]]

\* _parse_incidents raises: for an entry without get(), the try block raises
\* AttributeError and so does `item.get("id", "?")` in the except clause,
\* which nothing in _parse_incidents catches.
ParseRaises(raw) == \E i \in 1..Len(raw) : ~raw[i].object

Ids(snapshot) == {snapshot[i].id : i \in 1..Len(snapshot)}

Lookup(snapshot, id) == snapshot[CHOOSE i \in 1..Len(snapshot) : snapshot[i].id = id]

Event(type, incident) == [type |-> type, incident |-> incident]

\* The membership test taken against the snapshot being diffed, which holds
\* every id it is asked about.
IsKnownInCurrent(id, known) == TRUE

\* `inc_id not in self._known_incidents`, negated.
IsKnown(id, known) == id \in Ids(known)

\* One iteration of the first loop of _diff_and_publish: the events it
\* publishes and the update ids known afterwards.
DiffItem(known, knownIds, incident) ==
    LET current_update_ids == Range(incident.updates)
        new_update_ids == current_update_ids \ knownIds
    IN  IF ~IsKnown(incident.id, known)
        THEN [events |-> <<Event("new_incident", incident)>>,
              knownIds |-> knownIds \cup current_update_ids]
        ELSE IF new_update_ids # {}
        THEN [events |-> <<Event("incident_update", incident)>>,
              knownIds |-> knownIds \cup new_update_ids]
        ELSE [events |-> <<>>, knownIds |-> knownIds]

\* The first loop, over current.items() in order.
RECURSIVE DiffLoop(_, _, _, _)
DiffLoop(known, knownIds, current, i) ==
    IF i > Len(current) THEN [events |-> <<>>, knownIds |-> knownIds]
    ELSE LET step == DiffItem(known, knownIds, current[i])
             rest == DiffLoop(known, step.knownIds, current, i + 1)
         IN  [events |-> step.events \o rest.events, knownIds |-> rest.knownIds]

\* The second loop, over self._known_incidents.items() in order: the
\* incidents that went from a status other than resolved to resolved.
RECURSIVE ResolvedLoop(_, _, _)
ResolvedLoop(known, current, i) ==
    IF i > Len(known) THEN <<>>
    ELSE LET old == known[i]
             here == IF /\ old.id \in Ids(current)
                        /\ old.status # "resolved"
                        /\ Lookup(current, old.id).status = "resolved"
                     THEN <<Event("resolved", Lookup(current, old.id))>>
                     ELSE <<>>
         IN  here \o ResolvedLoop(known, current, i + 1)

\* _diff_and_publish: everything it publishes, in order, and the update ids
\* known afterwards.
DiffAndPublish(known, knownIds, current) ==
    LET first == DiffLoop(known, knownIds, current, 1)
    IN  [events |-> first.events \o ResolvedLoop(known, current, 1),
         knownIds |-> first.knownIds]

\* The way _tick leaves its incidents fetch.
TickPath(resp, last_hash) ==
    IF resp.kind = "network_error" THEN "network_error"      \* client.get raises
    ELSE IF resp.status = 304 THEN "not_modified"
    ELSE IF resp.status # 200 THEN "http_error"              \* raise_for_status
    ELSE IF Sha256(resp.body) = last_hash THEN "unchanged"
    ELSE IF ~resp.body.json THEN "bad_json"                  \* resp.json() raises
    ELSE IF ParseRaises(resp.body.incidents) THEN "parse_error"
    ELSE "process"

\* The paths on which _tick has read the validators off the response.
StoresValidatorsEarly(p) ==
    p \in {"http_error", "unchanged", "bad_json", "parse_error", "process"}

\* The validators read off a 304 response as well.
StoresValidatorsOn304(p) ==
    p \in {"not_modified", "unchanged", "bad_json", "parse_error", "process"}

\* The validators are stored after raise_for_status.
StoresValidators(p) == p \in {"unchanged", "bad_json", "parse_error", "process"}

\* `self._last_hash = body_hash` comes before resp.json(), the parse and the
\* diff: a tick that raises in any of them has stored the hash.
StoresHash(p) == p \in {"bad_json", "parse_error", "process"}

\* The snapshot replaced whatever the tick did, by what it parsed (nothing,
\* when it parsed nothing).
NextKnownAlways(p, known, current) == current

\* self._known_incidents = current, reached only when the tick processes.
NextKnown(p, known, current) == IF p = "process" THEN current ELSE known

\* An unexpected exception ends the loop instead of being logged.
AfterTickNoCatchAll(p) ==
    IF p = "process" THEN "summary"
    ELSE IF p \in {"bad_json", "parse_error"} THEN "stopped" ELSE "sleeping"

\* A skipped tick followed at once by the next fetch, without the sleep.
AfterTickSkipsSleep(p) ==
    IF p = "process" THEN "summary"
    ELSE IF p \in {"not_modified", "unchanged"} THEN "fetching" ELSE "sleeping"

\* start(): after _tick returns, or raises into `except httpx.HTTPError` or
\* `except Exception`, the loop goes on to sleep; a processed tick first
\* awaits its summary fetch.
AfterTick(p) == IF p = "process" THEN "summary" ELSE "sleeping"

\* Every incident of the snapshot listed as active.
ActiveIncidentsAll(known) == known

\* _fetch_summary on success: the non-resolved incidents of the snapshot.
ActiveIncidents(known) == SelectSeq(known, LAMBDA inc : inc.status # "resolved")

\* StatusSummary(..., active_incidents=active, ...), by its active incidents.
StatusSummary(active) == <<"StatusSummary", active>>

\* A failed summary fetch clearing the cache.
NextSummaryCleared(ok, old, fresh) == IF ok THEN fresh ELSE None

\* _fetch_summary: self._summary is assigned the new StatusSummary at the end
\* of the try block; `except Exception` logs and leaves it alone.
NextSummary(ok, old, fresh) == IF ok THEN fresh ELSE old

\* A loop that does not test the flag (while True).
LoopForever(r) == TRUE

\* start(): `while self._running`, tested when the sleep returns.
LoopGoesOn(r) == r

PollerInit ==
    /\ pc = "created"
    /\ running = FALSE
    /\ etag = None
    /\ lastModified = None
    /\ lastHash = None
    /\ knownIncidents = <<>>
    /\ knownUpdateIds = {}
    /\ summary = None
    /\ ticks = 0
    /\ path = "none"
    /\ tickEvents = <<>>
    /\ newSeen = {}
    /\ seenUpdates = [id \in Range(IncidentIds) |-> {}]
    /\ appendOnly = TRUE
    /\ stopCalled = FALSE

\* The beginning of _tick, up to `await self._client.get(...)`.
BeginTick ==
    /\ ticks < MaxTicks
    /\ ticks' = ticks + 1
    /\ pc' = "fetching"
    /\ path' = "none"
    /\ tickEvents' = <<>>

\* start(): _running is set and the first tick begins.
Start ==
    /\ pc = "created"
    /\ running' = TRUE
    /\ BeginTick
    /\ UNCHANGED <<etag, lastModified, lastHash, knownIncidents, knownUpdateIds,
                   summary, newSeen, seenUpdates, appendOnly>>
    /\ UNCHANGED <<stopCalled, busVars, regVars>>

\* stop(): the flag is cleared; the task is not interrupted. stop() can be
\* called as soon as the task exists, before the task has run its first step.
\* (A call that finds the flag cleared by an earlier call changes nothing.)
Stop ==
    /\ running \/ ~stopCalled
    /\ running' = FALSE
    /\ stopCalled' = TRUE
    /\ UNCHANGED <<pc, etag, lastModified, lastHash, knownIncidents, knownUpdateIds,
                   summary, ticks, path, tickEvents, newSeen, seenUpdates, appendOnly>>
    /\ UNCHANGED <<busVars, regVars>>

\* The incidents fetch returns or raises and _tick runs on: the 304 and error
\* exits, the validators, the hash test, the parse, the diff with its
\* publishes, the snapshot replacement, up to the summary fetch.
FetchReturn(resp) ==
    /\ pc = "fetching"
    /\ resp.status = 304 => (etag # None \/ lastModified # None)
    /\ LET p == TickPath(resp, lastHash)
           current == IF p = "process" THEN ParseIncidents(resp.body.incidents) ELSE <<>>
           diff == IF p = "process"
                   THEN DiffAndPublish(knownIncidents, knownUpdateIds, current)
                   ELSE [events |-> <<>>, knownIds |-> knownUpdateIds]
       IN  /\ path' = p
           /\ etag' = IF StoresValidators(p) THEN ETagHeader(resp) ELSE etag
           /\ lastModified' = IF StoresValidators(p) THEN LastModifiedHeader(resp)
                              ELSE lastModified
           /\ lastHash' = IF StoresHash(p) THEN Sha256(resp.body)
                          ELSE lastHash
           /\ tickEvents' = diff.events
           /\ knownUpdateIds' = diff.knownIds
           /\ knownIncidents' = NextKnown(p, knownIncidents, current)
           /\ newSeen' = newSeen \cup
                  {diff.events[i].incident.id : i \in
                      {j \in 1..Len(diff.events) : diff.events[j].type = "new_incident"}}
           /\ seenUpdates' =
                  [id \in Range(IncidentIds) |->
                      IF id \in Ids(current)
                      THEN seenUpdates[id] \cup Range(Lookup(current, id).updates)
                      ELSE seenUpdates[id]]
           /\ appendOnly' =
                  (appendOnly /\ \A id \in Ids(current) :
                      seenUpdates[id] \subseteq Range(Lookup(current, id).updates))
           /\ pc' = AfterTick(p)
    /\ UNCHANGED <<running, summary, ticks>>
    /\ UNCHANGED <<stopCalled, busVars, regVars>>

\* _fetch_summary: the cache is replaced on success and kept on any failure.
SummaryReturn(ok) ==
    /\ pc = "summary"
    /\ summary' = NextSummary(ok, summary, StatusSummary(ActiveIncidents(knownIncidents)))
    /\ path' = IF ok THEN "summary_replaced" ELSE "summary_failed"
    /\ pc' = "sleeping"
    /\ UNCHANGED <<running, etag, lastModified, lastHash, knownIncidents, knownUpdateIds,
                   ticks, tickEvents, newSeen, seenUpdates, appendOnly>>
    /\ UNCHANGED <<stopCalled, busVars, regVars>>

\* asyncio.sleep returns and `while self._running` is tested: the next tick
\* begins, or the loop ends.
WakeTick ==
    /\ pc = "sleeping"
    /\ LoopGoesOn(running)
    /\ BeginTick
    /\ UNCHANGED <<running, etag, lastModified, lastHash, knownIncidents, knownUpdateIds,
                   summary, newSeen, seenUpdates, appendOnly>>
    /\ UNCHANGED <<stopCalled, busVars, regVars>>

WakeStopped ==
    /\ pc = "sleeping"
    /\ ~LoopGoesOn(running)
    /\ pc' = "stopped"
    /\ UNCHANGED <<running, etag, lastModified, lastHash, knownIncidents, knownUpdateIds,
                   summary, ticks, path, tickEvents, newSeen, seenUpdates, appendOnly>>
    /\ UNCHANGED <<stopCalled, busVars, regVars>>

\* _diff_and_publish suspended in the publish of item i of its first loop:
\* the events handed to publish so far, and the update ids added so far (the
\* `|=` of item i comes after its publish).
CutInFirstLoop(known, knownIds, current, i) ==
    LET before == DiffLoop(known, knownIds, SubSeq(current, 1, i - 1), 1)
        here == DiffItem(known, before.knownIds, current[i])
    IN  [events |-> before.events \o here.events, knownIds |-> before.knownIds,
         publishes |-> here.events # <<>>]

\* Every publish of _diff_and_publish a tick can be suspended in.
CancelPoints(known, knownIds, current) ==
    LET first == DiffLoop(known, knownIds, current, 1)
        resolved == ResolvedLoop(known, current, 1)
        inFirst == {CutInFirstLoop(known, knownIds, current, i) : i \in 1..Len(current)}
    IN  {[events |-> c.events, knownIds |-> c.knownIds] : c \in {d \in inFirst : d.publishes}}
            \cup {[events |-> first.events \o SubSeq(resolved, 1, j),
                    knownIds |-> first.knownIds] : j \in 1..Len(resolved)}

\* task.cancel() reaches the task while it awaits the incidents fetch, the
\* summary fetch or the sleep: CancelledError is raised there, no except
\* clause of _fetch_summary, _tick or start() catches it, the task ends.
CancelAtAwait ==
    /\ pc \in {"fetching", "summary", "sleeping"}
    /\ pc' = "cancelled"
    /\ UNCHANGED <<running, etag, lastModified, lastHash, knownIncidents, knownUpdateIds,
                   summary, ticks, path, tickEvents, newSeen, seenUpdates, appendOnly>>
    /\ UNCHANGED <<stopCalled, busVars, regVars>>

\* The incidents fetch returns, _tick stores the validators and the hash,
\* parses, and task.cancel() reaches the task while _diff_and_publish awaits
\* one of its publishes: the snapshot is not replaced, the task ends.
CancelAtPublish(resp) ==
    /\ pc = "fetching"
    /\ TickPath(resp, lastHash) = "process"
    /\ \E cut \in CancelPoints(knownIncidents, knownUpdateIds,
                                ParseIncidents(resp.body.incidents)) :
          /\ tickEvents' = cut.events
          /\ knownUpdateIds' = cut.knownIds
          /\ newSeen' = newSeen \cup
                 {cut.events[i].incident.id : i \in
                     {j \in 1..Len(cut.events) : cut.events[j].type = "new_incident"}}
    /\ path' = "process"
    /\ etag' = IF StoresValidators("process") THEN ETagHeader(resp) ELSE etag
    /\ lastModified' = IF StoresValidators("process") THEN LastModifiedHeader(resp)
                       ELSE lastModified
    /\ lastHash' = IF StoresHash("process") THEN Sha256(resp.body) ELSE lastHash
    /\ pc' = "cancelled"
    /\ UNCHANGED <<running, knownIncidents, summary, ticks, seenUpdates, appendOnly>>
    /\ UNCHANGED <<stopCalled, busVars, regVars>>

PollerNext ==
    \/ Start
    \/ Stop
    \/ \E resp \in Responses : FetchReturn(resp)
    \/ \E ok \in BOOLEAN : SummaryReturn(ok)
    \/ WakeTick
    \/ WakeStopped

\* -------------------------------------------------------- MonitorRegistry
MonitorOrder == <<"A", "B">>          \* the providers the lifespan registers, in order
MonitorNames == Range(MonitorOrder)
MaxStarts == 2                        \* start_all() calls in one behaviour

\* What the incidents fetch of a tick leads to: a skipped tick (304, same
\* hash), a raised error, a processed tick without events, one with events.
TickOutcomes == {"skip", "error", "quiet", "events"}

\* The suspension points of a tick: the incidents fetch, a publish, the
\* summary fetch.
TickPcs == {"fetching", "publishing", "summary"}

\* asyncio.create_task(monitor.start()): a task that has not run yet.
NewTask(m) == [monitor |-> m, pc |-> "created", cancel |-> FALSE, at |-> "none"]

\* Two tasks launched for every monitor.
LaunchedTwice(names) ==
    [i \in 1..(2 * Len(names)) |-> NewTask(names[((i - 1) % Len(names)) + 1])]

\* start_all, the loop over self._monitors.items(): one task per monitor.
Launched(names) == [i \in 1..Len(names) |-> NewTask(names[i])]

\* self._tasks[name] = task: the last task created for each name.
TasksByName(names, ts) ==
    [i \in 1..Len(names) |->
        CHOOSE j \in 1..Len(ts) :
            /\ ts[j].monitor = names[i]
            /\ \A k \in 1..Len(ts) : ts[k].monitor = names[i] => k <= j]

\* stop_all going on without the awaited task having ended.
AwaitReturnsAtOnce(ts, j) == TRUE

\* `await task` in stop_all returns, or raises the CancelledError that is
\* caught there, once the task is done.
AwaitReturns(ts, j) == ts[j].pc = "done"

\* task.cancel(): requests cancellation of a task that is not done.
Cancel(ts, j) == [ts EXCEPT ![j].cancel = (ts[j].pc # "done")]

\* The summary attribute of every monitor, set or not.
GetSummariesUnfiltered == [i \in 1..Len(monitors) |-> mSummary[monitors[i]]]

\* get_summaries(): the summaries that are not None, in dict order.
GetSummaries ==
    LET have == SelectSeq(monitors, LAMBDA m : mSummary[m] # None)
    IN  [i \in 1..Len(have) |-> mSummary[have[i]]]

RegInit ==
    /\ monitors = <<>>
    /\ regPc = "created"
    /\ awaiting = 0
    /\ pool = "none"
    /\ taskOf = <<>>
    /\ tasks = <<>>
    /\ mRunning = [m \in MonitorNames |-> FALSE]
    /\ mSummary = [m \in MonitorNames |-> None]
    /\ mTicks = [m \in MonitorNames |-> 0]
    /\ latestOk = [m \in MonitorNames |-> 0]
    /\ lateEvent = FALSE
    /\ lateRequest = FALSE

\* register(): the lifespan registers the configured providers, in order,
\* before it starts them.
Register(m) ==
    /\ regPc = "created"
    /\ Len(monitors) < Len(MonitorOrder)
    /\ m = MonitorOrder[Len(monitors) + 1]
    /\ monitors' = Append(monitors, m)
    /\ UNCHANGED <<regPc, awaiting, pool, taskOf, tasks, mRunning, mSummary, mTicks,
                   latestOk, lateEvent, lateRequest>>
    /\ UNCHANGED <<busVars, pollerVars>>

\* start_all(): the shared client is built and the tasks are created; the
\* call has no suspension point.
StartAll ==
    /\ regPc = "created"
    /\ pool' = "open"
    /\ tasks' = Launched(monitors)
    /\ taskOf' = TasksByName(monitors, tasks')
    /\ regPc' = "started"
    /\ UNCHANGED <<monitors, awaiting, mRunning, mSummary, mTicks, latestOk,
                   lateEvent, lateRequest>>
    /\ UNCHANGED <<busVars, pollerVars>>

\* start_all() called again on a started registry: a new client replaces the
\* one held, which is not closed, and a new task is created for every
\* monitor and replaces the one held under its name, which runs on.
StartAllAgain ==
    /\ regPc = "started"
    /\ Len(tasks) < MaxStarts * Len(monitors)
    /\ pool' = "open"
    /\ tasks' = tasks \o Launched(monitors)
    /\ taskOf' = TasksByName(monitors, tasks')
    /\ UNCHANGED <<monitors, regPc, awaiting, mRunning, mSummary, mTicks, latestOk,
                   lateEvent, lateRequest>>
    /\ UNCHANGED <<busVars, pollerVars>>

\* The beginning of _tick in task i, up to `await self._client.get(...)`.
RegBeginTick(i) ==
    LET m == tasks[i].monitor
    IN  /\ mTicks[m] < MaxTicks
        /\ mTicks' = [mTicks EXCEPT ![m] = @ + 1]
        /\ tasks' = [tasks EXCEPT ![i].pc = "fetching"]
        /\ lateRequest' = (lateRequest \/ pool # "open")

\* The first step of a task: start() sets _running and the first tick begins.
TaskStart(i) ==
    /\ tasks[i].pc = "created"
    /\ ~tasks[i].cancel
    /\ mRunning' = [mRunning EXCEPT ![tasks[i].monitor] = TRUE]
    /\ RegBeginTick(i)
    /\ UNCHANGED <<monitors, regPc, awaiting, pool, taskOf, mSummary, latestOk, lateEvent>>
    /\ UNCHANGED <<busVars, pollerVars>>

\* The incidents fetch of task i returns or raises; the tick ends, or goes on
\* to its first publish, or (nothing to publish) to the summary fetch.
TaskFetchReturn(i, o) ==
    /\ tasks[i].pc = "fetching"
    /\ ~tasks[i].cancel
    /\ tasks' = [tasks EXCEPT ![i].pc =
                    IF o \in {"skip", "error"} THEN "sleeping"
                    ELSE IF o = "events" THEN "publishing" ELSE "summary"]
    /\ lateEvent' = (lateEvent \/ (o = "events" /\ regPc = "stopped"))
    /\ lateRequest' = (lateRequest \/ (o = "quiet" /\ pool # "open"))
    /\ UNCHANGED <<monitors, regPc, awaiting, pool, taskOf, mRunning, mSummary, mTicks,
                   latestOk>>
    /\ UNCHANGED <<busVars, pollerVars>>

\* The last publish of the tick returns and the summary fetch is sent.
TaskPublishReturn(i) ==
    /\ tasks[i].pc = "publishing"
    /\ ~tasks[i].cancel
    /\ tasks' = [tasks EXCEPT ![i].pc = "summary"]
    /\ lateRequest' = (lateRequest \/ pool # "open")
    /\ UNCHANGED <<monitors, regPc, awaiting, pool, taskOf, mRunning, mSummary, mTicks,
                   latestOk, lateEvent>>
    /\ UNCHANGED <<busVars, pollerVars>>

\* _fetch_summary ends in task i. The summary built in a tick is told from
\* the others by the number of its tick (its last_checked).
TaskSummaryReturn(i, ok) ==
    /\ tasks[i].pc = "summary"
    /\ ~tasks[i].cancel
    /\ LET m == tasks[i].monitor
       IN  /\ mSummary' = [mSummary EXCEPT
                              ![m] = NextSummary(ok, @, StatusSummary(mTicks[m]))]
           /\ latestOk' = [latestOk EXCEPT ![m] = IF ok THEN mTicks[m] ELSE @]
    /\ tasks' = [tasks EXCEPT ![i].pc = "sleeping"]
    /\ UNCHANGED <<monitors, regPc, awaiting, pool, taskOf, mRunning, mTicks,
                   lateEvent, lateRequest>>
    /\ UNCHANGED <<busVars, pollerVars>>

\* The sleep of task i is over and `while self._running` holds.
TaskWakeTick(i) ==
    /\ tasks[i].pc = "sleeping"
    /\ ~tasks[i].cancel
    /\ mRunning[tasks[i].monitor]
    /\ RegBeginTick(i)
    /\ UNCHANGED <<monitors, regPc, awaiting, pool, taskOf, mRunning, mSummary, latestOk,
                   lateEvent>>
    /\ UNCHANGED <<busVars, pollerVars>>

\* The sleep of task i is over and _running is cleared: start() returns.
TaskWakeStopped(i) ==
    /\ tasks[i].pc = "sleeping"
    /\ ~tasks[i].cancel
    /\ ~mRunning[tasks[i].monitor]
    /\ tasks' = [tasks EXCEPT ![i].pc = "done"]
    /\ UNCHANGED <<monitors, regPc, awaiting, pool, taskOf, mRunning, mSummary, mTicks,
                   latestOk, lateEvent, lateRequest>>
    /\ UNCHANGED <<busVars, pollerVars>>

\* CancelledError is thrown into task i where it is suspended (or before its
\* first step); no handler of start(), _tick or _fetch_summary catches it,
\* and the task ends.
TaskCancelled(i) ==
    /\ tasks[i].cancel
    /\ tasks[i].pc # "done"
    /\ tasks' = [tasks EXCEPT ![i].pc = "done", ![i].at = tasks[i].pc]
    /\ UNCHANGED <<monitors, regPc, awaiting, pool, taskOf, mRunning, mSummary, mTicks,
                   latestOk, lateEvent, lateRequest>>
    /\ UNCHANGED <<busVars, pollerVars>>

\* stop_all() up to its first suspension: every monitor's stop() (which does
\* not suspend), then the first task is cancelled and awaited; without tasks
\* the client is closed at once.
StopAllBegin ==
    /\ regPc = "started"
    /\ mRunning' = [m \in MonitorNames |-> IF m \in Range(monitors) THEN FALSE
                                           ELSE mRunning[m]]
    /\ IF taskOf = <<>>
       THEN /\ regPc' = "closing"
            /\ pool' = "closed"
            /\ UNCHANGED <<awaiting, tasks>>
       ELSE /\ regPc' = "stopping"
            /\ awaiting' = 1
            /\ tasks' = Cancel(tasks, taskOf[1])
            /\ UNCHANGED pool
    /\ UNCHANGED <<monitors, taskOf, mSummary, mTicks, latestOk, lateEvent, lateRequest>>
    /\ UNCHANGED <<busVars, pollerVars>>

\* The awaited task has ended: the next one is cancelled and awaited, or,
\* after the last, `await self._client.aclose()` is called.
StopAllNext ==
    /\ regPc = "stopping"
    /\ AwaitReturns(tasks, taskOf[awaiting])
    /\ IF awaiting < Len(taskOf)
       THEN /\ awaiting' = awaiting + 1
            /\ tasks' = Cancel(tasks, taskOf[awaiting + 1])
            /\ UNCHANGED <<regPc, pool>>
       ELSE /\ awaiting' = 0
            /\ regPc' = "closing"
            /\ pool' = "closed"
            /\ UNCHANGED tasks
    /\ UNCHANGED <<monitors, taskOf, mRunning, mSummary, mTicks, latestOk,
                   lateEvent, lateRequest>>
    /\ UNCHANGED <<busVars, pollerVars>>

\* aclose() has returned: _client = None, _tasks.clear(), stop_all returns.
StopAllReturn ==
    /\ regPc = "closing"
    /\ regPc' = "stopped"
    /\ taskOf' = <<>>
    /\ UNCHANGED <<monitors, awaiting, pool, tasks, mRunning, mSummary, mTicks, latestOk,
                   lateEvent, lateRequest>>
    /\ UNCHANGED <<busVars, pollerVars>>

RegistryNext ==
    \/ \E m \in MonitorNames : Register(m)
    \/ StartAll
    \/ \E i \in 1..Len(tasks) : TaskStart(i)
    \/ \E i \in 1..Len(tasks), o \in TickOutcomes : TaskFetchReturn(i, o)
    \/ \E i \in 1..Len(tasks) : TaskPublishReturn(i)
    \/ \E i \in 1..Len(tasks), ok \in BOOLEAN : TaskSummaryReturn(i, ok)
    \/ \E i \in 1..Len(tasks) : TaskWakeTick(i)
    \/ \E i \in 1..Len(tasks) : TaskWakeStopped(i)
    \/ \E i \in 1..Len(tasks) : TaskCancelled(i)
    \/ StopAllBegin
    \/ StopAllNext
    \/ StopAllReturn

\* The registry with start_all() called a second time.
RestartNext ==
    \/ RegistryNext
    \/ StartAllAgain

\* ---------------------------------------------------------------- Init
BusInit ==
    /\ subscribers = <<>>
    /\ lock = "free"
    /\ queue = [s \in SubIds |-> <<>>]
    /\ maxsize = [s \in SubIds |-> 0]
    /\ hasCallback = [s \in SubIds |-> FALSE]
    /\ subPc = [s \in SubIds |-> "none"]
    /\ pubPc = [p \in Publishers |-> "idle"]
    /\ pubEvent = [p \in Publishers |-> 0]
    /\ pubLeft = [p \in Publishers |-> {}]
    /\ pubFailed = [p \in Publishers |-> FALSE]
    /\ ready = <<>>
    /\ inCallback = {}
    /\ nextEvent = 1
    /\ snapOf = [e \in {} |-> {}]
    /\ enq = [s \in SubIds |-> <<>>]
    /\ regAt = [s \in SubIds |-> 0]
    /\ consumed = [s \in SubIds |-> FALSE]
    /\ cbRaised = [p \in Publishers |-> FALSE]
    /\ publishRaised = FALSE
    /\ pubOf = [e \in {} |-> ""]
    /\ cbCall = [t \in DeliverTasks |-> "none"]

\* ------------------------------------------------------------ subscribe
\* EventBus.subscribe: the Subscription is built with its own empty queue of
\* the asked capacity and registered under the lock. The lock is free whenever
\* a task reaches `async with self._lock` (no holder suspends), so acquiring
\* it does not suspend and the whole call is one step.
SubscribeCall(s, cap, cb) ==
    /\ subPc[s] = "none"
    /\ s = FreshId
    /\ lock = "free"
    /\ maxsize' = [maxsize EXCEPT ![s] = cap]
    /\ hasCallback' = [hasCallback EXCEPT ![s] = cb]
    /\ queue' = [queue EXCEPT ![s] = <<>>]
    /\ subscribers' = Append(subscribers, s)
    /\ subPc' = [subPc EXCEPT ![s] = "active"]
    /\ regAt' = [regAt EXCEPT ![s] = nextEvent]
    /\ UNCHANGED <<lock, pubPc, pubEvent, pubLeft, pubFailed, ready, inCallback,
                   nextEvent, snapOf, enq, consumed, cbRaised, publishRaised, pubOf>>

\* subscribe() called by the owner of the subscription.
Subscribe(s, cap, cb) ==
    /\ SubscribeCall(s, cap, cb)
    /\ UNCHANGED <<cbCall, pollerVars, regVars>>

\* ---------------------------------------------------------- unsubscribe
\* EventBus.unsubscribe: self._subscribers.pop(subscription_id, None) under
\* the lock; a second call finds nothing to remove.
UnsubscribeCall(s) ==
    /\ subPc[s] \in {"active", "removed"}
    /\ lock = "free"
    /\ subscribers' = Remove(subscribers, s)
    /\ subPc' = [subPc EXCEPT ![s] = "removed"]
    /\ UNCHANGED <<lock, queue, maxsize, hasCallback, pubPc, pubEvent, pubLeft, pubFailed,
                   ready, inCallback, nextEvent, snapOf, enq, regAt, consumed, cbRaised,
                   publishRaised, pubOf>>

\* unsubscribe() called by the owner of the subscription.
Unsubscribe(s) ==
    /\ UnsubscribeCall(s)
    /\ UNCHANGED <<cbCall, pollerVars, regVars>>

\* -------------------------------------------------------------- publish
\* EventBus.publish up to `await asyncio.gather(...)`: the snapshot under the
\* lock, the early return without subscribers, and gather() creating one
\* deliver() task per snapshotted subscriber, in snapshot order.
PublishCall(p) ==
    /\ pubPc[p] = "idle"
    /\ p = IdleTask
    /\ nextEvent <= MaxEvents
    /\ lock = "free"
    /\ nextEvent' = nextEvent + 1
    /\ LET subs == SnapshotSubs
           e == nextEvent
       IN  /\ pubEvent' = [pubEvent EXCEPT ![p] = IF subs = <<>> THEN 0 ELSE e]
           /\ snapOf' = [x \in DOMAIN snapOf \cup {e} |->
                            IF x = e THEN Range(subs) ELSE snapOf[x]]
           /\ pubOf' = [x \in DOMAIN pubOf \cup {e} |-> IF x = e THEN p ELSE pubOf[x]]
           /\ IF subs = <<>>
              THEN UNCHANGED <<lock, pubPc, ready, pubLeft, pubFailed>>
              ELSE /\ lock' = LockWhileDelivering(p)
                   /\ pubPc' = [pubPc EXCEPT ![p] = "gather"]
                   /\ ready' = ready \o [i \in 1..Len(subs) |->
                                            [pub |-> p, ev |-> e, sub |-> subs[i]]]
                   /\ pubLeft' = [pubLeft EXCEPT ![p] = Range(subs)]
                   /\ pubFailed' = [pubFailed EXCEPT ![p] = FALSE]
    /\ UNCHANGED <<subscribers, queue, maxsize, hasCallback, subPc, inCallback,
                   enq, regAt, consumed, cbRaised, publishRaised>>

\* publish() called by a publishing task.
Publish(p) ==
    /\ PublishCall(p)
    /\ UNCHANGED <<cbCall, pollerVars, regVars>>

\* The first deliver() task of the loop's ready queue runs to its first
\* suspension: the event is put in the queue, and the callback, if any, is
\* awaited.
DeliverStart ==
    /\ ready # <<>>
    /\ DeliverCanRun(queue[Head(ready).sub], maxsize[Head(ready).sub])
    /\ LET t == Head(ready)
           s == t.sub
       IN  /\ ready' = Tail(ready)
           /\ queue' = [queue EXCEPT ![s] = DeliverQueue(queue[s], maxsize[s], t.ev)]
           /\ enq' = [enq EXCEPT ![s] = IF Count(queue'[s], t.ev) > Count(queue[s], t.ev)
                                         THEN Append(enq[s], t.ev) ELSE enq[s]]
           /\ IF hasCallback[s]
              THEN /\ inCallback' = inCallback \cup {t}
                   /\ UNCHANGED pubLeft
              ELSE /\ pubLeft' = [pubLeft EXCEPT ![t.pub] = @ \ {s}]
                   /\ UNCHANGED inCallback
    /\ UNCHANGED <<subscribers, lock, maxsize, hasCallback, subPc, pubPc, pubEvent,
                   pubFailed, nextEvent, snapOf, regAt, consumed, cbRaised, publishRaised>>
    /\ UNCHANGED <<pubOf, cbCall, pollerVars, regVars>>

\* A subscriber's callback returns or raises; deliver() ends.
CallbackEnd(t, r) ==
    /\ t \in inCallback
    /\ cbCall[t] \in {"none", "called"}
    /\ cbCall' = [cbCall EXCEPT ![t] = "none"]
    /\ inCallback' = inCallback \ {t}
    /\ cbRaised' = [cbRaised EXCEPT ![t.pub] = @ \/ r = "raise"]
    /\ pubLeft' = [pubLeft EXCEPT ![t.pub] = @ \ {t.sub}]
    /\ pubFailed' = [pubFailed EXCEPT ![t.pub] = @ \/ DeliverOutcome(r) # "ok"]
    /\ UNCHANGED <<subscribers, lock, queue, maxsize, hasCallback, subPc, pubPc, pubEvent,
                   ready, nextEvent, snapOf, enq, regAt, consumed, publishRaised>>
    /\ UNCHANGED <<pubOf, pollerVars, regVars>>

\* gather() is complete: publish() logs and returns to the publisher.
PublishReturn(p) ==
    /\ pubPc[p] = "gather"
    /\ pubLeft[p] = {}
    /\ pubPc' = [pubPc EXCEPT ![p] = "idle"]
    /\ publishRaised' = (publishRaised \/ PublishOutcome(pubFailed[p]) = "raised")
    /\ pubEvent' = [pubEvent EXCEPT ![p] = 0]
    /\ pubFailed' = [pubFailed EXCEPT ![p] = FALSE]
    /\ cbRaised' = [cbRaised EXCEPT ![p] = FALSE]
    /\ lock' = IF lock = p THEN "free" ELSE lock
    /\ cbCall' = [t \in DeliverTasks |-> IF cbCall[t] = p THEN "called" ELSE cbCall[t]]
    /\ UNCHANGED <<subscribers, queue, maxsize, hasCallback, subPc,
                   pubLeft, ready, inCallback, nextEvent, snapOf, enq, regAt, consumed>>
    /\ UNCHANGED <<pubOf, pollerVars, regVars>>

\* A consumer takes the oldest event of its queue (queue.get(), as stream()
\* does). The two consumption patterns are kept apart: a subscription with a
\* callback is consumed through the callback and its queue is never read.
Consume(s) ==
    /\ subPc[s] # "none"
    /\ ~hasCallback[s]
    /\ queue[s] # <<>>
    /\ queue' = [queue EXCEPT ![s] = Tail(@)]
    /\ consumed' = [consumed EXCEPT ![s] = TRUE]
    /\ UNCHANGED <<subscribers, lock, maxsize, hasCallback, subPc, pubPc, pubEvent,
                   pubLeft, pubFailed, ready, inCallback, nextEvent, snapOf, enq, regAt,
                   cbRaised, publishRaised>>
    /\ UNCHANGED <<pubOf, cbCall, pollerVars, regVars>>

\* ------------------------------------------------- calls from callbacks
\* A callback in progress calls subscribe() on the bus that is delivering to
\* it: with the lock free the call runs to its end without suspending; with
\* the lock held the callback waits in `async with self._lock`.
CallbackSubscribe(t, s, cap, cb) ==
    /\ t \in inCallback
    /\ cbCall[t] \in {"none", "waiting"}
    /\ IF lock = "free"
       THEN /\ SubscribeCall(s, cap, cb)
            /\ cbCall' = [cbCall EXCEPT ![t] = "called"]
       ELSE /\ cbCall' = [cbCall EXCEPT ![t] = "waiting"]
            /\ UNCHANGED busVarsButCall
    /\ UNCHANGED <<pollerVars, regVars>>

\* A callback in progress calls unsubscribe().
CallbackUnsubscribe(t, s) ==
    /\ t \in inCallback
    /\ cbCall[t] \in {"none", "waiting"}
    /\ IF lock = "free"
       THEN /\ UnsubscribeCall(s)
            /\ cbCall' = [cbCall EXCEPT ![t] = "called"]
       ELSE /\ cbCall' = [cbCall EXCEPT ![t] = "waiting"]
            /\ UNCHANGED busVarsButCall
    /\ UNCHANGED <<pollerVars, regVars>>

\* A callback in progress calls publish(): the nested call takes its snapshot
\* and, unless the snapshot is empty, the callback waits for the nested
\* gather; publisher p stands for the nested call.
CallbackPublish(t, p) ==
    /\ t \in inCallback
    /\ cbCall[t] \in {"none", "waiting"}
    /\ IF lock = "free"
       THEN /\ PublishCall(p)
            /\ cbCall' = [cbCall EXCEPT ![t] = IF SnapshotSubs = <<>> THEN "called" ELSE p]
       ELSE /\ cbCall' = [cbCall EXCEPT ![t] = "waiting"]
            /\ UNCHANGED busVarsButCall
    /\ UNCHANGED <<pollerVars, regVars>>

\* A callback that waits for the lock is resumed when the lock is released.
CallbackResumes(t) ==
    /\ cbCall[t] = "waiting"
    /\ \/ \E s \in SubIds : CallbackSubscribe(t, s, MaxSize, TRUE)
       \/ \E s \in SubIds : CallbackUnsubscribe(t, s)
       \/ \E p \in Publishers : CallbackPublish(t, p)

\* --------------------------------------------------------------- stream
\* stream() subscribes with the defaults of subscribe(): no callback, and the
\* default capacity, for which the largest capacity of the model stands.
StreamSize == MaxSize

\* A generator that leaves without unsubscribing.
FinallySkipped(subs, s) == subs

\* stream(), the finally clause: await self.unsubscribe(sub.id).
FinallyUnsubscribe(subs, s) == Remove(subs, s)

\* The first __anext__ of a stream() generator: self.subscribe(), then the
\* generator waits in `await sub.queue.get()`.
StreamOpen(s) ==
    /\ subPc[s] = "none"
    /\ s = FreshId
    /\ lock = "free"
    /\ maxsize' = [maxsize EXCEPT ![s] = StreamSize]
    /\ hasCallback' = [hasCallback EXCEPT ![s] = FALSE]
    /\ queue' = [queue EXCEPT ![s] = <<>>]
    /\ subscribers' = Append(subscribers, s)
    /\ subPc' = [subPc EXCEPT ![s] = "stream_waiting"]
    /\ regAt' = [regAt EXCEPT ![s] = nextEvent]
    /\ UNCHANGED <<lock, pubPc, pubEvent, pubLeft, pubFailed, ready, inCallback,
                   nextEvent, snapOf, enq, consumed, cbRaised, publishRaised>>
    /\ UNCHANGED <<pubOf, cbCall, pollerVars, regVars>>

\* queue.get() returns the oldest event and the generator yields it.
StreamGet(s) ==
    /\ subPc[s] = "stream_waiting"
    /\ queue[s] # <<>>
    /\ queue' = [queue EXCEPT ![s] = Tail(@)]
    /\ consumed' = [consumed EXCEPT ![s] = TRUE]
    /\ subPc' = [subPc EXCEPT ![s] = "stream_yielded"]
    /\ UNCHANGED <<subscribers, lock, maxsize, hasCallback, pubPc, pubEvent,
                   pubLeft, pubFailed, ready, inCallback, nextEvent, snapOf, enq, regAt,
                   cbRaised, publishRaised>>
    /\ UNCHANGED <<pubOf, cbCall, pollerVars, regVars>>

\* The consumer asks for the next event: the generator goes round its loop.
StreamResume(s) ==
    /\ subPc[s] = "stream_yielded"
    /\ subPc' = [subPc EXCEPT ![s] = "stream_waiting"]
    /\ UNCHANGED <<subscribers, lock, queue, maxsize, hasCallback, pubPc, pubEvent,
                   pubLeft, pubFailed, ready, inCallback, nextEvent, snapOf, enq, regAt,
                   consumed, cbRaised, publishRaised>>
    /\ UNCHANGED <<pubOf, cbCall, pollerVars, regVars>>

\* The consumer is cancelled while it awaits the next event: CancelledError
\* is raised in the generator at queue.get() and the finally clause runs (the
\* lock is free, unsubscribe does not suspend).
StreamCancel(s) ==
    /\ subPc[s] = "stream_waiting"
    /\ lock = "free"
    /\ subscribers' = FinallyUnsubscribe(subscribers, s)
    /\ subPc' = [subPc EXCEPT ![s] = "stream_cancelled"]
    /\ UNCHANGED <<lock, queue, maxsize, hasCallback, pubPc, pubEvent, pubLeft, pubFailed,
                   ready, inCallback, nextEvent, snapOf, enq, regAt, consumed, cbRaised,
                   publishRaised>>
    /\ UNCHANGED <<pubOf, cbCall, pollerVars, regVars>>

\* The consumer stops iterating while it holds an event (a break, as in
\* event_generator, an exception, a cancellation or close of the consumer):
\* the generator is left suspended at its yield, with no reference to it.
StreamAbandon(s) ==
    /\ subPc[s] = "stream_yielded"
    /\ subPc' = [subPc EXCEPT ![s] = "stream_abandoned"]
    /\ UNCHANGED <<subscribers, lock, queue, maxsize, hasCallback, pubPc, pubEvent,
                   pubLeft, pubFailed, ready, inCallback, nextEvent, snapOf, enq, regAt,
                   consumed, cbRaised, publishRaised>>
    /\ UNCHANGED <<pubOf, cbCall, pollerVars, regVars>>

\* The abandoned generator is finalized: the event loop's asynchronous
\* generator hook runs its aclose(), GeneratorExit is raised at the yield and
\* the finally clause runs.
StreamFinalize(s) ==
    /\ subPc[s] = "stream_abandoned"
    /\ lock = "free"
    /\ subscribers' = FinallyUnsubscribe(subscribers, s)
    /\ subPc' = [subPc EXCEPT ![s] = "stream_finalized"]
    /\ UNCHANGED <<lock, queue, maxsize, hasCallback, pubPc, pubEvent, pubLeft, pubFailed,
                   ready, inCallback, nextEvent, snapOf, enq, regAt, consumed, cbRaised,
                   publishRaised>>
    /\ UNCHANGED <<pubOf, cbCall, pollerVars, regVars>>

StreamNext ==
    \/ \E s \in SubIds : StreamOpen(s)
    \/ \E s \in SubIds : StreamGet(s)
    \/ \E s \in SubIds : StreamResume(s)
    \/ \E s \in SubIds : StreamCancel(s)
    \/ \E s \in SubIds : StreamAbandon(s)
    \/ \E s \in SubIds : StreamFinalize(s)
    \/ \E p \in Publishers : Publish(p)
    \/ DeliverStart
    \/ \E p \in Publishers : PublishReturn(p)

BusNext ==
    \/ \E s \in SubIds, cap \in 1..MaxSize, cb \in BOOLEAN : Subscribe(s, cap, cb)
    \/ \E s \in SubIds : Unsubscribe(s)
    \/ \E p \in Publishers : Publish(p)
    \/ DeliverStart
    \/ \E t \in inCallback, r \in CallbackResults : CallbackEnd(t, r)
    \/ \E p \in Publishers : PublishReturn(p)
    \/ \E s \in SubIds : Consume(s)

\* The bus without any consumer reading a queue.
NoReaderNext ==
    \/ \E s \in SubIds, cap \in 1..MaxSize, cb \in BOOLEAN : Subscribe(s, cap, cb)
    \/ \E s \in SubIds : Unsubscribe(s)
    \/ \E p \in Publishers : Publish(p)
    \/ DeliverStart
    \/ \E t \in inCallback, r \in CallbackResults : CallbackEnd(t, r)
    \/ \E p \in Publishers : PublishReturn(p)

\* One response of each kind: the error, the 304, the error status, and the
\* 200 with a body that is not JSON, that lists nothing, that lists one
\* incident, or that has an entry that is not an object.
ResponseKinds ==
    {r \in Responses :
        r.body.incidents \in
            {<<>>, <<NotAnObject>>,
             <<[id |-> IncidentIds[1], ok |-> TRUE, object |-> TRUE,
                status |-> "investigating", updates |-> <<"U1">>]>>}}

\* The poller against those responses.
StopNext ==
    \/ Start
    \/ Stop
    \/ \E resp \in ResponseKinds : FetchReturn(resp)
    \/ \E ok \in BOOLEAN : SummaryReturn(ok)
    \/ WakeTick
    \/ WakeStopped

\* The poller with its task cancelled at any of its suspension points.
CancelNext ==
    \/ Start
    \/ Stop
    \/ \E resp \in ResponseKinds : FetchReturn(resp)
    \/ \E ok \in BOOLEAN : SummaryReturn(ok)
    \/ WakeTick
    \/ WakeStopped
    \/ CancelAtAwait
    \/ \E resp \in ResponseKinds : CancelAtPublish(resp)

\* The bus with subscribers whose callbacks call subscribe, unsubscribe and
\* publish on it. Every subscription has a callback and the largest capacity.
ReentrantNext ==
    \/ \E s \in SubIds : Subscribe(s, MaxSize, TRUE)
    \/ \E p \in Publishers : Publish(p)
    \/ DeliverStart
    \/ \E t \in DeliverTasks, r \in CallbackResults : CallbackEnd(t, r)
    \/ \E p \in Publishers : PublishReturn(p)
    \/ \E t \in DeliverTasks, s \in SubIds : CallbackSubscribe(t, s, MaxSize, TRUE)
    \/ \E t \in DeliverTasks, s \in SubIds : CallbackUnsubscribe(t, s)
    \/ \E t \in DeliverTasks, p \in Publishers : CallbackPublish(t, p)

\* The bus and the poller as constructed.
Init == BusInit /\ PollerInit /\ RegInit

BusSpec == Init /\ [][BusNext]_vars

PollerSpec == Init /\ [][PollerNext]_vars

RegistrySpec == Init /\ [][RegistryNext]_vars

RestartSpec == Init /\ [][RestartNext]_vars

\* Every HTTP fetch returns or raises (the client has a timeout), every
\* publish returns, and asyncio.sleep returns.
StopSpec ==
    /\ Init /\ [][StopNext]_vars
    /\ WF_vars(\E resp \in ResponseKinds : FetchReturn(resp))
    /\ WF_vars(\E ok \in BOOLEAN : SummaryReturn(ok))
    /\ WF_vars(WakeStopped)

CancelSpec == Init /\ [][CancelNext]_vars

\* The event loop runs every task that is ready (a deliver() task, a
\* publish() whose gather is complete), and every callback returns or raises.
NoReaderSpec ==
    /\ Init /\ [][NoReaderNext]_vars
    /\ WF_vars(DeliverStart)
    /\ \A p \in Publishers : WF_vars(PublishReturn(p))
    /\ \A t \in DeliverTasks : WF_vars(\E r \in CallbackResults : CallbackEnd(t, r))

\* The event loop runs every task that is ready, every callback returns or
\* raises once the call it made on the bus has returned, and the lock wakes
\* the callbacks that wait for it.
ReentrantSpec ==
    /\ Init /\ [][ReentrantNext]_vars
    /\ WF_vars(DeliverStart)
    /\ \A p \in Publishers : WF_vars(PublishReturn(p))
    /\ \A t \in DeliverTasks : WF_vars(\E r \in CallbackResults : CallbackEnd(t, r))
    /\ \A t \in DeliverTasks : WF_vars(CallbackResumes(t))

\* The event loop runs the aclose() its hook schedules for a generator that
\* was abandoned.
StreamSpec ==
    Init /\ [][StreamNext]_vars /\ \A s \in SubIds : WF_vars(StreamFinalize(s))

\* ------------------------------------------------------------ bus claims
\* The events a publish() has handed to subscription s so far: s was in the
\* snapshot and its deliver() task has run.
Delivered(s) ==
    {e \in DOMAIN snapOf :
        /\ s \in snapOf[e]
        /\ \A i \in 1..Len(ready) : ~(ready[i].ev = e /\ ready[i].sub = s)}

\* C1: drop-oldest backpressure. A queue never holds more than its capacity
\* N, and the queue of a subscriber whose consumer has never read holds
\* exactly the (at most N) most recently published of the events delivered to
\* it, in publish order.
C1_DropOldest ==
    \A s \in SubIds :
        /\ Len(queue[s]) <= maxsize[s]
        /\ ~consumed[s] => queue[s] = LastN(SortedSeq(Delivered(s)), maxsize[s])

\* Capacity 2, events 1, 2, 3 published, nothing read: the queue is [2, 3].
C1_Witness ==
    \E s \in SubIds :
        /\ ~consumed[s]
        /\ maxsize[s] = 2
        /\ Delivered(s) = {1, 2, 3}
        /\ queue[s] = <<2, 3>>

\* C2: a subscription never receives (in its queue or its callback) an event
\* whose publish() took its snapshot before the subscription was registered.
\* Events are numbered in snapshot order and regAt[s] is the number of the
\* first event snapshotted after s was registered.
C2_NoEventsBeforeSubscribe ==
    \A s \in SubIds :
        /\ subPc[s] = "none" => enq[s] = <<>> /\ queue[s] = <<>>
        /\ \A e \in Range(enq[s]) \cup Range(queue[s]) : e >= regAt[s]

\* A subscription registered after event 1 was published (and delivered to an
\* older subscriber) has received a later event.
C2_Witness ==
    \E s, o \in SubIds :
        /\ regAt[s] >= 2
        /\ enq[s] # <<>>
        /\ 1 \in Range(enq[o])
        /\ 1 \notin Range(enq[s])

\* C3: per-subscriber failure isolation. Every subscriber in the snapshot of a
\* publish() has the event put in its queue exactly once as soon as its
\* deliver() has run (and never otherwise), whatever the other subscribers'
\* callbacks or queues do, and no publish() raises to its publisher.
C3_FanOutIsolation ==
    /\ ~publishRaised
    /\ \A s \in SubIds : \A e \in 1..MaxEvents :
          Count(enq[s], e) = IF e \in Delivered(s) THEN 1 ELSE 0

\* A publish() to two subscribers has finished its deliveries: one callback
\* raised, the other subscriber's queue was full, both hold the event.
C3_Witness ==
    \E p \in Publishers : \E s, o \in SubIds :
        /\ pubPc[p] = "gather" /\ pubLeft[p] = {}
        /\ cbRaised[p]
        /\ snapOf[pubEvent[p]] = {s, o} /\ s # o
        /\ hasCallback[s]
        /\ ~hasCallback[o] /\ ~consumed[o] /\ Len(enq[o]) > maxsize[o]
        /\ Count(enq[s], pubEvent[p]) = 1 /\ Count(enq[o], pubEvent[p]) = 1
        /\ queue[o][Len(queue[o])] = pubEvent[p]


\* ------------------------------------------------------- poller properties
\* The step in which the incidents fetch of a tick returns and the tick runs
\* on from it.
FetchStep == pc = "fetching" /\ pc' # "fetching"

\* The same, for a tick that goes on to parse and diff; knownIncidents is then
\* the previous snapshot and knownIncidents' the current one.
ProcessStep == FetchStep /\ path' = "process"

\* How many events of one type a tick published for one incident id.
CountFor(events, type, id) ==
    Cardinality({j \in 1..Len(events) :
                    events[j].type = type /\ events[j].incident.id = id})

\* C4: a tick whose incidents fetch returns 304, or whose body hash equals
\* the stored hash, publishes no event and leaves the known snapshot as it was.
C4_UnchangedFetchIsSilent ==
    [][(FetchStep /\ path' \in {"not_modified", "unchanged"})
           => (tickEvents' = <<>> /\ knownIncidents' = knownIncidents)]_vars

\* A tick that was skipped, on either ground, by a poller that knows incidents.
C4_Witness ==
    /\ path \in {"not_modified", "unchanged"}
    /\ pc = "sleeping"
    /\ knownIncidents # <<>>
    /\ ticks >= 2

\* C5: an incident id in the current snapshot and not in the previous one
\* gets exactly one new_incident and no incident_update in that tick, and an
\* incident_update is only ever published for an id whose new_incident was
\* published in an earlier tick.
C5_NewIncidentFirst ==
    [][ProcessStep =>
          /\ \A id \in Ids(knownIncidents') \ Ids(knownIncidents) :
                /\ CountFor(tickEvents', "new_incident", id) = 1
                /\ CountFor(tickEvents', "incident_update", id) = 0
          /\ \A j \in 1..Len(tickEvents') :
                tickEvents'[j].type = "incident_update"
                    => tickEvents'[j].incident.id \in newSeen]_vars

\* A tick that published a new_incident for one id next to an incident_update
\* for another, already announced, id.
C5_Witness ==
    /\ path = "process"
    /\ \E i, j \in 1..Len(tickEvents) :
          /\ tickEvents[i].type = "new_incident"
          /\ tickEvents[j].type = "incident_update"
          /\ tickEvents[j].incident.id \in newSeen

\* C6: an incident that goes from a status other than resolved to resolved
\* gets exactly one resolved event, and an incident_update as well when the
\* current incident shows an update id the previous one did not; no other
\* incident gets a resolved event. Stated for upstreams that never drop an
\* update id.
C6_ResolvedWithUpdate ==
    [][(ProcessStep /\ appendOnly') =>
          /\ \A id \in Ids(knownIncidents) \cap Ids(knownIncidents') :
                LET old == Lookup(knownIncidents, id)
                    new == Lookup(knownIncidents', id)
                IN  IF old.status # "resolved" /\ new.status = "resolved"
                    THEN /\ CountFor(tickEvents', "resolved", id) = 1
                         /\ Range(new.updates) \ Range(old.updates) # {}
                                => CountFor(tickEvents', "incident_update", id) = 1
                    ELSE CountFor(tickEvents', "resolved", id) = 0
          /\ \A id \in Ids(knownIncidents') \ Ids(knownIncidents) :
                CountFor(tickEvents', "resolved", id) = 0]_vars

\* C7: an incident in both snapshots gets exactly one incident_update when
\* the current incident shows an update id the previous one did not, and none
\* otherwise, as the per-incident diff of the two snapshots has it. Stated for
\* upstreams that never drop an update id.
C7_UpdatePerIncident ==
    [][(ProcessStep /\ appendOnly') =>
          \A id \in Ids(knownIncidents) \cap Ids(knownIncidents') :
              LET old == Lookup(knownIncidents, id)
                  new == Lookup(knownIncidents', id)
              IN  CountFor(tickEvents', "incident_update", id) =
                      IF Range(new.updates) \ Range(old.updates) # {} THEN 1 ELSE 0]_vars

\* The update ids a poller knows when the only snapshot it ever processed is
\* this one.
FirstTickKnownIds(snapshot) == DiffAndPublish(<<>>, {}, snapshot).knownIds

\* C8: the events of a tick are those a poller publishes that holds the same
\* previous snapshot and has seen no other, for the same current snapshot.
\* Stated for upstreams that never drop an update id.
C8_DeterministicInPair ==
    [][(ProcessStep /\ appendOnly') =>
          tickEvents' = DiffAndPublish(knownIncidents,
                                       FirstTickKnownIds(knownIncidents),
                                       knownIncidents').events]_vars

\* C9: a tick that raises, on any of its errors, is followed by the sleep;
\* from the sleep the loop goes on to the next tick while _running holds, and
\* it ends only once stop() has cleared _running.
C9_ErrorsKeepLoop ==
    [][/\ (FetchStep /\ path' \in {"network_error", "http_error", "bad_json", "parse_error"})
              => pc' = "sleeping"
       /\ (pc = "sleeping" /\ pc' # "sleeping")
              => pc' = (IF running THEN "fetching" ELSE "stopped")
       /\ pc' = "stopped" => ~running']_vars

\* A tick begun after a tick that raised on a body that is not JSON.
C9_Witness ==
    /\ pc = "fetching"
    /\ ticks >= 2
    /\ running
    /\ lastHash # None
    /\ ~lastHash[2].json

\* C10: a tick whose incidents fetch raises, or returns an error status,
\* publishes nothing and leaves validators, hash, snapshot, update ids and
\* summary as they were.
C10_FailedFetchIsNoOp ==
    [][(FetchStep /\ path' \in {"network_error", "http_error"}) =>
          /\ tickEvents' = <<>>
          /\ UNCHANGED <<etag, lastModified, lastHash, knownIncidents,
                         knownUpdateIds, summary>>]_vars

\* An error status met by a poller that holds validators, a snapshot and a
\* summary.
C10_Witness ==
    /\ path = "http_error"
    /\ pc = "sleeping"
    /\ etag # None
    /\ knownIncidents # <<>>
    /\ summary # None


\* The events of a sequence that provider p's poller published.
ByProvider(seq, p) == SelectSeq(seq, LAMBDA e : pubOf[e] = p)

\* C12: at every subscriber the events of one provider were put in the queue
\* in the order that provider published them (events are numbered in publish
\* order), and the queue holds the events put in it less a prefix (evicted or
\* read), so it holds them in that order too.
C12_PerProviderOrder ==
    \A s \in SubIds :
        /\ \A p \in Publishers :
              \A i, j \in 1..Len(ByProvider(enq[s], p)) :
                  i < j => ByProvider(enq[s], p)[i] < ByProvider(enq[s], p)[j]
        /\ queue[s] = LastN(enq[s], Len(queue[s]))

\* One provider published events 1 and 3 and another published event 2 in
\* between, while the first publish was still in progress; a subscriber that
\* lost event 1 to eviction holds 2 and 3.
C12_Witness ==
    \E s \in SubIds : \E p, o \in Publishers :
        /\ p # o
        /\ DOMAIN pubOf = {1, 2, 3}
        /\ pubOf[1] = p /\ pubOf[2] = o /\ pubOf[3] = p
        /\ enq[s] = <<1, 2, 3>>
        /\ ~consumed[s]
        /\ queue[s] = <<2, 3>>

\* C13: once stop() has been called the poller begins no further tick,
\* wherever its task was when stop() was called.
C13_NoTickAfterStop ==
    [][stopCalled => ticks' = ticks]_vars

\* C14: the cached summary is never cleared, a failed summary fetch leaves
\* it as it was, and nothing but a successful summary fetch changes it.
C14_SummaryNeverCleared ==
    [][/\ summary # None => summary' # None
       /\ (pc = "summary" /\ path' = "summary_failed") => summary' = summary
       /\ summary' # summary => (pc = "summary" /\ path' = "summary_replaced")]_vars

\* A summary fetch failed in a tick that changed the snapshot: the cache holds
\* the summary of an earlier tick.
C14_Witness ==
    /\ path = "summary_failed"
    /\ summary # None
    /\ summary # StatusSummary(ActiveIncidents(knownIncidents))

\* C17: a stream registers one subscription, under an id no subscription has
\* had; a consumer cancelled while waiting leaves the subscription removed at
\* once; and the subscription of a stream whose consumer stopped iterating is
\* eventually removed.
C17_StreamCleansUp ==
    /\ [][\A s \in SubIds :
             /\ (subPc[s] = "none" /\ subPc'[s] # "none")
                    => (s \notin Range(subscribers) /\ subscribers' = Append(subscribers, s))
             /\ subPc'[s] = "stream_cancelled" => s \notin Range(subscribers')]_vars
    /\ \A s \in SubIds :
          (subPc[s] = "stream_abandoned") ~> (s \notin Range(subscribers))

\* A stream that read an event and was then abandoned has been finalized and
\* is out of the subscriber map, while another stream is still subscribed.
C17_Witness ==
    \E s, o \in SubIds :
        /\ subPc[s] = "stream_finalized"
        /\ consumed[s]
        /\ s \notin Range(subscribers)
        /\ subPc[o] = "stream_waiting"
        /\ subscribers = <<o>>

\* C18: with no consumer reading, every publish() in progress returns, and
\* when it returns the event has been put in the queue of every subscriber of
\* its snapshot and no callback for it is still running.
C18_PublishNeverBlocks ==
    /\ \A p \in Publishers : (pubPc[p] = "gather") ~> (pubPc[p] = "idle")
    /\ [][\A p \in Publishers :
             (pubPc[p] = "gather" /\ pubPc'[p] = "idle") =>
                 /\ \A s \in snapOf[pubEvent[p]] : Count(enq[s], pubEvent[p]) = 1
                 /\ \A t \in inCallback : t.pub # p]_vars

\* Every publish() has returned; a queue nobody read is full and has lost an
\* event to make room for the last one.
C18_Witness ==
    /\ nextEvent > MaxEvents
    /\ \A p \in Publishers : pubPc[p] = "idle"
    /\ \E s \in SubIds :
          /\ s \in Range(subscribers)
          /\ Len(queue[s]) = maxsize[s]
          /\ Len(enq[s]) > maxsize[s]
          /\ MaxEvents \in Range(queue[s])

\* C19: a tick whose incidents fetch returns 304 ends there: it publishes no
\* event, leaves the ETag token, the last-modified token and the content hash
\* as they were, and nothing that parsing and diffing assign (snapshot, update
\* ids, summary) changes.
C19_NotModifiedKeepsValidators ==
    [][(FetchStep /\ path' = "not_modified") =>
          /\ tickEvents' = <<>>
          /\ UNCHANGED <<etag, lastModified, lastHash>>
          /\ UNCHANGED <<knownIncidents, knownUpdateIds, summary>>
          /\ pc' = "sleeping"]_vars

\* A 304 answered to a poller that sent validators and holds a content hash.
C19_Witness ==
    /\ path = "not_modified"
    /\ etag # None
    /\ lastModified # None
    /\ lastHash # None

\* The exits of _tick's incidents fetch.
TickPaths ==
    {"network_error", "not_modified", "http_error", "unchanged", "bad_json", "parse_error",
     "process"}

\* C20: a tick begins only when the task starts or when a sleep ends, one tick
\* at a time; whatever way the tick leaves its incidents fetch, the loop next
\* sleeps, a processed tick after its summary fetch; and a sleep ends only in
\* the next tick or in the end of the loop.
C20_OneTickOneSleep ==
    [][/\ ticks' # ticks =>
              (ticks' = ticks + 1 /\ pc \in {"created", "sleeping"} /\ pc' = "fetching")
       /\ (pc = "fetching" /\ path = "none" /\ path' # "none") =>
              /\ path' \in TickPaths
              /\ pc' = (IF path' = "process" THEN "summary" ELSE "sleeping")
       /\ (pc = "fetching" /\ path' = path) => pc' = "fetching"
       /\ pc = "summary" => pc' \in {"summary", "sleeping"}
       /\ (pc = "sleeping" /\ pc' # "sleeping") =>
              \/ pc' = "fetching" /\ ticks' = ticks + 1
              \/ pc' = "stopped" /\ ticks' = ticks]_vars

\* The sleep after the last of the ticks, which failed, of a poller that an
\* earlier tick left with a snapshot and without a summary.
C20_Witness ==
    /\ ticks = MaxTicks
    /\ pc = "sleeping"
    /\ path \in {"network_error", "http_error", "bad_json", "parse_error"}
    /\ knownIncidents # <<>>
    /\ summary = None

\* The entries of a payload that the Incident model accepts.
WellFormedIds(raw) == {raw[i].id : i \in {j \in 1..Len(raw) : raw[j].ok}}

\* C21: a tick that fetched a fresh JSON body, whatever mix of well-formed and
\* malformed entries its "incidents" array holds, replaces the snapshot by
\* the well-formed incidents of that body and goes on to the summary fetch.
C21_MalformedEntrySkipped ==
    [][(FetchStep /\ lastHash' # lastHash /\ lastHash'[2].json) =>
          /\ pc' = "summary"
          /\ Ids(knownIncidents') = WellFormedIds(lastHash'[2].incidents)]_vars

\* C22: a summary fetch that replaces the cache stores, as active incidents,
\* exactly the incidents of the snapshot its tick left whose status is not
\* resolved; no cached summary ever lists a resolved incident.
C22_ActiveAreUnresolved ==
    [][/\ (pc = "summary" /\ path' = "summary_replaced") =>
              /\ summary'[1] = "StatusSummary"
              /\ Range(summary'[2]) =
                     {inc \in Range(knownIncidents) : inc.status # "resolved"}
              /\ Len(summary'[2]) = Cardinality(Range(summary'[2]))
       /\ summary' # None =>
              \A i \in 1..Len(summary'[2]) : summary'[2][i].status # "resolved"]_vars

\* A summary replaced in a tick whose snapshot holds a resolved incident and
\* one that is not.
C22_Witness ==
    /\ path = "summary_replaced"
    /\ \E inc \in Range(knownIncidents) : inc.status = "resolved"
    /\ summary # None
    /\ summary[2] # <<>>

\* The rule of _diff_and_publish an event type belongs to.
RuleOf(type) ==
    IF type = "new_incident" THEN 1 ELSE IF type = "incident_update" THEN 2 ELSE 3

\* C23: the events of one tick are published in rule order: every
\* new_incident before any incident_update, every incident_update before any
\* resolved.
C23_RuleOrder ==
    [][FetchStep =>
          \A i, j \in 1..Len(tickEvents') :
              i < j => RuleOf(tickEvents'[i].type) <= RuleOf(tickEvents'[j].type)]_vars

\* C24: a tick cancelled while in flight leaves the ETag token, the
\* last-modified token and the content hash as they were when it started.
\* (A tick assigns nothing before its incidents fetch returns, so in a step
\* taken from the incidents fetch the values before the step are those of the
\* start of the tick.)
C24_CancelledTickCommitsNothing ==
    [][(pc = "fetching" /\ pc' = "cancelled") =>
          UNCHANGED <<etag, lastModified, lastHash>>]_vars

\* The snapshot holds what the body lists: the body is not JSON (it lists
\* nothing), or its well-formed incidents are the known incidents.
Processed(body) ==
    body.json => ParseIncidents(body.incidents) = knownIncidents

\* C25: a tick is skipped on the stored hash, or on a 304 for the stored
\* validators, only when the body they were stored for has been processed:
\* the snapshot holds the incidents of that body, no change it carries is
\* left unpublished.
C25_FailedTickLosesNothing ==
    [][/\ (FetchStep /\ path' = "unchanged") => Processed(lastHash[2])
       /\ (FetchStep /\ path' = "not_modified" /\ etag # None) => Processed(etag[3])]_vars

\* C26: once unsubscribe(id) has returned, no event is put in the queue of
\* that subscription and its callback is not invoked, whatever publish() calls
\* are in progress.
C26_NothingAfterUnsubscribe ==
    [][\A s \in SubIds :
          subPc[s] = "removed" =>
              /\ enq'[s] = enq[s]
              /\ queue'[s] = queue[s] \/ Len(queue'[s]) < Len(queue[s])
              /\ \A t \in inCallback' \ inCallback : t.sub # s]_vars

\* C27: over the life of a poller at most one new_incident event is published
\* for an incident id: a tick publishes none for an id that had one in an
\* earlier tick, and at most one for any id.
C27_OneNewIncidentPerId ==
    [][FetchStep =>
          \A id \in Range(IncidentIds) :
              CountFor(tickEvents', "new_incident", id) <= (IF id \in newSeen THEN 0 ELSE 1)]_vars

\* ----------------------------------------------------- registry properties
\* The tasks that are inside a tick of provider m.
TicksInProgress(m) ==
    {i \in 1..Len(tasks) : tasks[i].monitor = m /\ tasks[i].pc \in TickPcs}

\* C11: at most one tick of a provider is in progress, and a tick of a
\* provider begins only when none is in progress, in a task that is at its
\* first step or at the end of its sleep.
C11_TicksNeverOverlap ==
    [][\A m \in MonitorNames :
          /\ Cardinality(TicksInProgress(m)') <= 1
          /\ mTicks'[m] > mTicks[m] =>
                /\ TicksInProgress(m) = {}
                /\ \E i \in 1..Len(tasks) :
                      /\ tasks[i].monitor = m
                      /\ tasks[i].pc \in {"created", "sleeping"}
                      /\ tasks'[i].pc = "fetching"]_vars

\* Ticks of two providers in progress at once, one of them a later tick.
C11_Witness ==
    \E m, n \in MonitorNames :
        /\ m # n
        /\ TicksInProgress(m) # {}
        /\ TicksInProgress(n) # {}
        /\ mTicks[m] >= 2


\* C15: in every state get_summaries() returns, for exactly the providers
\* whose poller has completed a successful summary fetch, the summary of the
\* latest such fetch, whole; the other providers are left out.
C15_SummariesOfFetched ==
    LET fetched == SelectSeq(monitors, LAMBDA m : latestOk[m] > 0)
    IN  GetSummaries = [i \in 1..Len(fetched) |-> StatusSummary(latestOk[fetched[i]])]

\* One provider's summary is that of its second tick; the other provider has
\* ticked without a successful summary fetch and is left out.
C15_Witness ==
    \E m, n \in Range(monitors) :
        /\ latestOk[m] >= 2
        /\ latestOk[n] = 0 /\ mTicks[n] >= 1
        /\ GetSummaries = <<StatusSummary(latestOk[m])>>


\* C16: stop_all clears every registered poller's flag before it cancels a
\* task, cancels tasks only then, has every task before the awaited one
\* ended, closes the pool only when every task has ended, and from then on,
\* and after it has returned, no task runs, publishes or sends a request; no
\* request is ever sent through a pool that is not open.
C16_StopAllOrder ==
    [][/\ (regPc = "started" /\ regPc' # "started")
              => \A m \in Range(monitors) : ~mRunning'[m]
       /\ \A i \in 1..Len(tasks') :
              tasks'[i].cancel => regPc' \in {"stopping", "closing", "stopped"}
       /\ regPc' = "stopping"
              => \A k \in 1..(awaiting' - 1) : tasks'[taskOf'[k]].pc = "done"
       /\ (pool' = "closed" \/ regPc' \in {"closing", "stopped"})
              => \A i \in 1..Len(tasks') : tasks'[i].pc = "done"
       /\ ~lateEvent' /\ ~lateRequest'
       /\ regPc' = "stopped" => pool' = "closed"]_vars

\* stop_all has returned after cancelling one task in a publish and the other
\* in its summary fetch.
C16_Witness ==
    /\ regPc = "stopped"
    /\ \E i, j \in 1..Len(tasks) :
          /\ tasks[i].at = "publishing"
          /\ tasks[j].at = "summary"


\* The tasks of provider m that have not ended.
LiveTasks(m) == {i \in 1..Len(tasks) : tasks[i].monitor = m /\ tasks[i].pc # "done"}

\* C28: whatever calls the registry has had, no provider has two polling
\* tasks that have not ended.
C28_OneLiveTaskPerProvider ==
    \A m \in MonitorNames : Cardinality(LiveTasks(m)) <= 1


C29_NoDeadlockOnLock ==
    /\ [](lock = "free" /\ \A t \in DeliverTasks : cbCall[t] # "waiting")
    /\ \A t \in DeliverTasks : (t \in inCallback) ~> (t \notin inCallback)
    /\ \A p \in Publishers : (pubPc[p] = "gather") ~> (pubPc[p] = "idle" /\ lock = "free")

\* A callback has called publish(), and the nested call has delivered its
\* event to the subscription of that callback, which is still in progress.
C29_Witness ==
    \E t \in inCallback :
        /\ cbCall[t] \in Publishers
        /\ pubEvent[cbCall[t]] \in Range(enq[t.sub])
        /\ pubEvent[cbCall[t]] > t.ev

====
